---------------------------- MODULE Spec2Model ----------------------------
(***************************************************************************)
(* A model of the two opinion-dynamics simulators of the NAEC workshop     *)
(* notebooks:                                                              *)
(*   - class MarsiliCurty (Marsili-Curty-model.ipynb): informed agents and *)
(*     followers, one follower polled per time step, and the summation     *)
(*     range of the analytical map F_z of fixed_point;                     *)
(*   - class RFIM (RFIM.ipynb): the random-field Ising model with its      *)
(*     flip / sweep / equilibrate dynamics and the module-level N that     *)
(*     sweep reads.                                                        *)
(* Random draws are nondeterministic choices.  Real numbers are modelled   *)
(* as exact fractions [num, den]; a fraction with den = 0 is numpy's nan   *)
(* (0/0 on numpy scalars gives nan and a warning, it does not raise).      *)
(***************************************************************************)
EXTENDS Integers, Sequences, FiniteSets

\* ------------------------------------------------------------------ bounds
\* Largest population of a MarsiliCurty instance.
MaxPop == 3
\* Largest poll size m.
MaxPoll == 2
\* Largest number of time steps asked of iterate.
MaxT == 2
\* Largest population of an RFIM instance, and largest module-level N.
MaxSpins == 3
\* z ranges over the fractions k / ZDen of [0, 1]; int(N * z) is the floor
\* of N * k / ZDen (quarters are exact in binary floating point).
ZDen == 4
\* The values of the coupling J, of the field F and of the biases h[i].
JVals == {-2, -1, 0, 1}
FVals == {-1, 0, 1}
HVals == {-1, 1}

\* -------------------------------------------------------------- arithmetic
Rat(n, d) == [num |-> n, den |-> d]
NaN == Rat(0, 0)
IsNaN(x) == x.den = 0
\* An array entry that np.empty allocated and nothing has written yet.
Uninit == Rat(-1, -1)

Sgn(k) == IF k > 0 THEN 1 ELSE IF k < 0 THEN -1 ELSE 0

\* np.sign on a scalar: nan stays nan.
np_sign(x) == IF IsNaN(x) THEN NaN ELSE Rat(Sgn(x.num) * Sgn(x.den), 1)

\* integer * scalar
Times(k, x) == IF IsNaN(x) THEN NaN ELSE Rat(k * x.num, x.den)

\* scalar == integer (any comparison with nan is False)
EqInt(x, k) == ~IsNaN(x) /\ x.num = k * x.den

RECURSIVE SumTo(_, _)
\* sum of f[0] .. f[n-1]
SumTo(f, n) == IF n <= 0 THEN 0 ELSE f[n - 1] + SumTo(f, n - 1)

RECURSIVE SumSeq(_)
SumSeq(sq) == IF sq = <<>> THEN 0 ELSE Head(sq) + SumSeq(Tail(sq))

\* np.mean(a > 0) over the entries lo .. hi-1 of a: nan on an empty slice.
MeanPositive(a, lo, hi) ==
    Rat(Cardinality({k \in lo..(hi - 1) : a[k] > 0}), hi - lo)

VARIABLES
    \* ---- MarsiliCurty instance
    mcN,        \* self.N
    N_i,        \* self.N_i
    mcM,        \* self.m
    mcS,        \* self.S, a function on 0..N-1
    S0,         \* ghost: the informed part self.S[:N_i] as __init__ left it
    mcpc,       \* "idle" | "iterate" | "returned" | "raised"
    T,          \* iterate's argument
    t,          \* iterate's loop variable
    q,          \* iterate's q array
    pi,         \* iterate's pi array
    hist,       \* ghost: self.S when iterate was called and after each step
    chosen,     \* ghost: random_follower of the last time_step, or -1
    poll,       \* ghost: how many of the last time_step's group_choices were +1, -1
    \* ---- RFIM instance and the notebook's module-level N
    J, F, rfN, rfS, h,
    N,          \* the module-level N that sweep's range(N) reads
    rfpc,       \* "idle" | "sweep" | "sweep_raised" | "flip_raised"
    caller,     \* who called the running / last sweep: "driver" | "equilibrate"
    i,          \* sweep's loop variable
    s,          \* sweep's flip counter
    visited,    \* ghost: the indices flip was called on in the running / last sweep
    ret,        \* return value of the last completed sweep, or -1
    lastFlip,   \* ghost: index and return value of the last completed flip
    preFlip,    \* ghost: S, h, F, J as the last completed flip found them
    atEq,       \* ghost: equilibrate returned and neither F nor S changed since
    sweepS      \* ghost: self.S when the running / last sweep was entered

mcvars == <<mcN, N_i, mcM, mcS, S0, mcpc, T, t, q, pi, hist, chosen, poll>>
rfvars == <<J, F, rfN, rfS, h, N, rfpc, caller, i, s, visited, ret, lastFlip,
            preFlip, atEq, sweepS>>
vars == <<mcvars, rfvars>>

\* =========================================================== MarsiliCurty
N_f == mcN - N_i

\* How many entries of group_choices are +1 and how many are -1.
Tally(group_choices) ==
    [pos |-> Cardinality({k \in DOMAIN group_choices : group_choices[k] = 1}),
     neg |-> Cardinality({k \in DOMAIN group_choices : group_choices[k] = -1})]
NoPoll == [pos |-> 0, neg |-> 0]

\* MarsiliCurty.__init__: N_i = int(N * z) with z = zk / ZDen; the informed
\* and the follower entries are each drawn from {-1, 1}.
MCInit ==
    /\ mcN \in 1..MaxPop
    /\ mcM \in 1..MaxPoll
    /\ \E zk \in 0..ZDen : N_i = (mcN * zk) \div ZDen
    /\ mcS \in [0..(mcN - 1) -> {-1, 1}]
    /\ S0 = [k \in 0..(N_i - 1) |-> mcS[k]]
    /\ mcpc = "idle"
    /\ T = 0 /\ t = 0
    /\ q = <<>> /\ pi = <<>>
    /\ hist = <<>>
    /\ chosen = -1
    /\ poll = NoPoll

compute_q(S) == MeanPositive(S, N_i, mcN)
compute_pi(S) == MeanPositive(S, 0, mcN)
compute_informed(S) == MeanPositive(S, 0, N_i)

\* randint drawing among all the agents instead of the followers.
AnyAgentRange == 0..(mcN - 1)

\* np.random.randint(low = N_i, high = N): the half-open range; raises
\* ValueError when it is empty.
FollowerRange == N_i..(mcN - 1)

\* np.sign(np.mean(group_choices)) as the float stored into S.
MajoritySign(group_choices) == Sgn(SumSeq(group_choices))

\* The body of time_step for the drawn follower and group.
StepEffect(follower, group) ==
    LET group_choices == [k \in 1..mcM |-> mcS[group[k]]]
    IN  /\ mcS' = [mcS EXCEPT ![follower] = MajoritySign(group_choices)]
        /\ chosen' = follower
        /\ poll' = Tally(group_choices)

Groups == [1..mcM -> 0..(mcN - 1)]

\* A direct call of time_step.
TimeStep ==
    /\ mcpc = "idle"
    /\ FollowerRange # {}
    /\ \E follower \in FollowerRange, group \in Groups : StepEffect(follower, group)
    /\ UNCHANGED <<mcN, N_i, mcM, S0, mcpc, T, t, q, pi, hist>>
    /\ UNCHANGED rfvars

\* A direct call of time_step with no follower: randint raises.
TimeStepRaise ==
    /\ mcpc = "idle"
    /\ FollowerRange = {}
    /\ mcpc' = "raised"
    /\ UNCHANGED <<mcN, N_i, mcM, mcS, S0, T, t, q, pi, hist, chosen, poll>>
    /\ UNCHANGED rfvars

\* iterate(T): the two np.empty(T) arrays.
IterateCall ==
    /\ mcpc = "idle"
    /\ \E TT \in 0..MaxT :
         /\ T' = TT
         /\ q' = [k \in 1..TT |-> Uninit]
         /\ pi' = [k \in 1..TT |-> Uninit]
    /\ t' = 0
    /\ hist' = <<mcS>>
    /\ mcpc' = "iterate"
    /\ UNCHANGED <<mcN, N_i, mcM, mcS, S0, chosen, poll>>
    /\ UNCHANGED rfvars

\* One pass of iterate's loop body: record, then step.
IterateBody ==
    /\ mcpc = "iterate"
    /\ t < T
    /\ q' = [q EXCEPT ![t + 1] = compute_q(mcS)]
    /\ pi' = [pi EXCEPT ![t + 1] = compute_pi(mcS)]
    /\ IF FollowerRange = {}
       THEN /\ mcpc' = "raised"
            /\ UNCHANGED <<mcS, chosen, poll, t, hist>>
       ELSE /\ \E follower \in FollowerRange, group \in Groups :
                 StepEffect(follower, group)
            /\ t' = t + 1
            /\ hist' = Append(hist, mcS')
            /\ mcpc' = "iterate"
    /\ UNCHANGED <<mcN, N_i, mcM, S0, T>>
    /\ UNCHANGED rfvars

IterateReturn ==
    /\ mcpc = "iterate"
    /\ t = T
    /\ mcpc' = "returned"
    /\ UNCHANGED <<mcN, N_i, mcM, mcS, S0, T, t, q, pi, hist, chosen, poll>>
    /\ UNCHANGED rfvars

\* fixed_point.F_z: the values of l its sum runs over, range((m+1)//2, m+1).
F_z_terms(m) == ((m + 1) \div 2)..m


\* =================================================================== RFIM
\* The ghost record of a flip that has not happened.
NoFlip == [i |-> -1, r |-> 0]
\* The fields of the instance that flip reads or writes.
Fields == [S |-> rfS, h |-> h, F |-> F, J |-> J]

\* RFIM.__init__: S drawn from {-1, 1}, h drawn from the Laplace law (here
\* from HVals).  N is the module-level variable of the notebook, set by a
\* driver cell independently of the instance's own size.
RFInit ==
    /\ J \in JVals
    /\ F \in FVals
    /\ rfN \in 1..MaxSpins
    /\ rfS \in [0..(rfN - 1) -> {-1, 1}]
    /\ h \in [0..(rfN - 1) -> HVals]
    /\ N \in 1..MaxSpins
    /\ rfpc = "idle"
    /\ caller = "driver"
    /\ i = 0 /\ s = 0
    /\ visited = <<>>
    /\ ret = -1
    /\ lastFlip = NoFlip
    /\ preFlip = Fields
    /\ atEq = FALSE
    /\ sweepS = rfS

\* local_m with the agent's own opinion left in the sum.
local_m_with_self(idx) == Rat(SumTo(rfS, rfN), rfN - 1)

\* local_m = (self.S.sum() - self.S[idx]) / (self.N - 1): 0/0 = nan when
\* self.N = 1.
local_m(idx) == Rat(SumTo(rfS, rfN) - rfS[idx], rfN - 1)

\* RFIM.p: self.h[idx] + self.F + self.J * local_m.
p(idx) ==
    LET lm == local_m(idx)
    IN  IF IsNaN(lm) THEN NaN
        ELSE Rat((h[idx] + F) * lm.den + J * lm.num, lm.den)

\* RFIM.flip, line 75.
should_flip(idx) == Times(rfS[idx], np_sign(p(idx)))

\* RFIM.flip: its return value and self.S after it.
FlipRet(idx) == IF EqInt(should_flip(idx), -1) THEN 1 ELSE 0
FlipS(idx) ==
    IF EqInt(should_flip(idx), -1) THEN [rfS EXCEPT ![idx] = -rfS[idx]] ELSE rfS

\* self.S[idx] raises IndexError for an index past the array (idx >= 0 here).
InRange(idx) == idx \in 0..(rfN - 1)

\* Nothing of an earlier sweep is left to look at.
ForgetCalls ==
    /\ caller' = "driver"
    /\ visited' = <<>>
    /\ ret' = -1
    /\ sweepS' = rfS'

\* The driver sets sim.F (RFIM.ipynb lines 138-140, 176, 182, 185).
SetF ==
    /\ rfpc = "idle"
    /\ \E f \in FVals \ {F} : F' = f
    /\ atEq' = FALSE
    /\ lastFlip' = NoFlip
    /\ UNCHANGED <<J, rfN, rfS, h, N, rfpc, i, s>>
    /\ preFlip' = Fields'
    /\ ForgetCalls
    /\ UNCHANGED mcvars

\* The driver sets sim.S to an array of the instance's size (lines 177, 183).
SetS ==
    /\ rfpc = "idle"
    /\ \E S \in [0..(rfN - 1) -> {-1, 1}] \ {rfS} : rfS' = S
    /\ atEq' = FALSE
    /\ lastFlip' = NoFlip
    /\ UNCHANGED <<J, F, rfN, h, N, rfpc, i, s>>
    /\ preFlip' = Fields'
    /\ ForgetCalls
    /\ UNCHANGED mcvars

\* A direct call flip(idx).
Flip ==
    /\ rfpc = "idle"
    /\ \E idx \in 0..(MaxSpins - 1) :
         IF InRange(idx)
         THEN /\ rfS' = FlipS(idx)
              /\ lastFlip' = [i |-> idx, r |-> FlipRet(idx)]
              /\ preFlip' = Fields
              /\ atEq' = (atEq /\ FlipRet(idx) = 0)
              /\ rfpc' = "idle"
         ELSE /\ rfpc' = "flip_raised"
              /\ UNCHANGED <<rfS, lastFlip, preFlip, atEq>>
    /\ ForgetCalls
    /\ UNCHANGED <<J, F, rfN, h, N, i, s>>
    /\ UNCHANGED mcvars

\* sweep is entered, by the driver or by equilibrate: s = 0 and the loop
\* over range(N) starts.
EnterSweep(who) ==
    /\ rfpc' = "sweep"
    /\ caller' = who
    /\ i' = 0
    /\ s' = 0
    /\ visited' = <<>>
    /\ sweepS' = rfS

SweepCall ==
    /\ rfpc = "idle"
    /\ EnterSweep("driver")
    /\ ret' = -1
    /\ lastFlip' = NoFlip
    /\ preFlip' = Fields
    /\ UNCHANGED <<J, F, rfN, rfS, h, N, atEq>>
    /\ UNCHANGED mcvars

EquilibrateCall ==
    /\ rfpc = "idle"
    /\ EnterSweep("equilibrate")
    /\ ret' = -1
    /\ lastFlip' = NoFlip
    /\ preFlip' = Fields
    /\ atEq' = FALSE
    /\ UNCHANGED <<J, F, rfN, rfS, h, N>>
    /\ UNCHANGED mcvars

\* The bound of sweep's loop: range(N) reads the module-level N.
SweepBound == N

\* One pass of sweep's loop body: s += self.flip(i).
SweepStep ==
    /\ rfpc = "sweep"
    /\ i < SweepBound
    /\ IF InRange(i)
       THEN /\ rfS' = FlipS(i)
            /\ s' = s + FlipRet(i)
            /\ lastFlip' = [i |-> i, r |-> FlipRet(i)]
            /\ preFlip' = Fields
            /\ visited' = Append(visited, i)
            /\ i' = i + 1
            /\ rfpc' = "sweep"
       ELSE /\ rfpc' = "sweep_raised"
            /\ UNCHANGED <<rfS, s, lastFlip, preFlip, visited, i>>
    /\ UNCHANGED <<J, F, rfN, h, N, caller, ret, atEq, sweepS>>
    /\ UNCHANGED mcvars

\* sweep returns s; equilibrate calls it again while it returned > 0, and
\* returns once it returned 0.
SweepReturn ==
    /\ rfpc = "sweep"
    /\ i >= SweepBound
    /\ ret' = s
    /\ IF caller = "equilibrate" /\ s > 0
       THEN /\ EnterSweep("equilibrate")
            /\ UNCHANGED atEq
       ELSE /\ rfpc' = "idle"
            /\ i' = 0
            /\ s' = 0
            /\ atEq' = IF caller = "equilibrate" THEN TRUE ELSE atEq
            /\ UNCHANGED <<caller, visited, sweepS>>
    /\ UNCHANGED <<J, F, rfN, rfS, h, N, lastFlip, preFlip>>
    /\ UNCHANGED mcvars

\* ========================================================= specifications
\* The instance a specification does not run stays as constructed.
MCStill ==
    /\ mcN = 1 /\ N_i = 0 /\ mcM = 1
    /\ mcS = [k \in 0..0 |-> 1] /\ S0 = <<>>
    /\ mcpc = "idle" /\ T = 0 /\ t = 0 /\ q = <<>> /\ pi = <<>>
    /\ hist = <<>> /\ chosen = -1 /\ poll = NoPoll

RFStill ==
    /\ J = 0 /\ F = 0 /\ rfN = 2 /\ N = 2
    /\ rfS = [k \in 0..1 |-> 1] /\ h = [k \in 0..1 |-> 1]
    /\ rfpc = "idle" /\ caller = "driver" /\ i = 0 /\ s = 0
    /\ visited = <<>> /\ ret = -1 /\ lastFlip = NoFlip /\ preFlip = Fields
    /\ atEq = FALSE /\ sweepS = rfS

NextMC ==
    \/ TimeStep
    \/ TimeStepRaise
    \/ IterateCall
    \/ IterateBody
    \/ IterateReturn

NextRFIM ==
    \/ SetF
    \/ SetS
    \/ Flip
    \/ SweepCall
    \/ EquilibrateCall
    \/ SweepStep
    \/ SweepReturn

InitMC == MCInit /\ RFStill
InitRFIM == RFInit /\ MCStill

\* The social-learning simulator alone.
SpecMC == InitMC /\ [][NextMC]_vars
\* The random-field Ising simulator alone.
SpecRFIM == InitRFIM /\ [][NextRFIM]_vars
\* The same, with every enabled step eventually taken: the calls are
\* sequential code that runs to its return.
FairRFIM == SpecRFIM /\ WF_vars(NextRFIM)

\* ================================================================= claims
Signs == {-1, 1}

\* C1: in both simulators every entry of S is exactly +1 or -1 after
\* construction and after any number of time_step / sweep calls, even poll
\* sizes and zero local fields included.
C1_OpinionsAreSigns ==
    /\ \A k \in DOMAIN mcS : mcS[k] \in Signs
    /\ \A k \in DOMAIN rfS : rfS[k] \in Signs

\* The RFIM half of C1 on its own: flip only ever negates an entry.
RFIMOpinionsAreSigns == \A k \in DOMAIN rfS : rfS[k] \in Signs

\* equilibrate has returned and nothing was called since.
EquilibrateReturned == rfpc = "idle" /\ caller = "equilibrate" /\ ret >= 0
\* A sweep called by the driver has returned and nothing was called since.
SweepReturned == rfpc = "idle" /\ caller = "driver" /\ ret >= 0

\* C2: for every RFIM instance with N >= 2 (any J, F, h, S), equilibrate
\* ends after finitely many sweeps, so it never ends in an error, and the
\* last sweep returned 0; a sweep called right after it, with F and S
\* untouched, returns 0 and leaves S as it was.
C2_EquilibrateReachesFixedPoint ==
    rfN >= 2 =>
      /\ ~(rfpc = "sweep_raised" /\ caller = "equilibrate")
      /\ EquilibrateReturned => ret = 0
      /\ (SweepReturned /\ atEq) => (ret = 0 /\ rfS = sweepS)

\* The part of C2 that the code keeps: whenever the module-level N does not
\* exceed the instance's size, a running equilibrate returns.
EquilibrateTerminates ==
    (rfpc = "sweep" /\ caller = "equilibrate" /\ N <= rfN)
        ~> (rfpc = "idle" /\ caller = "equilibrate" /\ ret = 0)

\* C3: whatever N the instance was constructed with, one sweep attempts
\* flip(i) for every i in 0..N-1 of that instance exactly once, in
\* increasing order, never failing on the way, and returns the number of
\* agents whose opinion changed during the pass.
C3_SweepVisitsEveryAgentOnce ==
    /\ rfpc # "sweep_raised"
    /\ (SweepReturned \/ EquilibrateReturned) =>
         /\ visited = [k \in 1..rfN |-> k - 1]
         /\ ret = Cardinality({k \in 0..(rfN - 1) : rfS[k] # sweepS[k]})

\* C4: the opinions at the informed indices [0, N_i) stay what __init__
\* made them, and a time_step changes S at no index other than the chosen
\* follower, which lies in [N_i, N).
C4_OnlyTheChosenFollowerChanges ==
    /\ [](\A k \in 0..(N_i - 1) : mcS[k] = S0[k])
    /\ [][\A k \in DOMAIN mcS :
            mcS'[k] # mcS[k] => (k = chosen' /\ k >= N_i /\ k < mcN)]_vars

\* C4's case: with informed agents present, a step of iterate has changed
\* the opinion of a follower.
C4_Witness ==
    N_i >= 1 /\ chosen >= N_i /\ Len(hist) >= 2 /\ hist[2] # hist[1]

\* C5: with J = 0, after equilibrate every agent i in 0..N-1 holds
\* sign(h[i] + F) exactly, for every F, h and starting S.  (The claim is
\* read where it has a meaning: on an instance of two agents or more, whose
\* local field is defined, and on the agents with h[i] + F # 0, since an
\* opinion is never 0.)
C5_DecoupledEquilibrium ==
    (J = 0 /\ EquilibrateReturned /\ rfN >= 2) =>
        \A k \in 0..(rfN - 1) : h[k] + F # 0 => rfS[k] = Sgn(h[k] + F)

\* The part of C5 that the code keeps: the agents that sweep visits, in an
\* instance of two agents or more, hold the sign of a nonzero h[i] + F.
DecoupledEquilibriumOfVisited ==
    (J = 0 /\ EquilibrateReturned /\ rfN >= 2) =>
        \A k \in 0..(rfN - 1) :
            (k < N /\ h[k] + F # 0) => rfS[k] = Sgn(h[k] + F)

\* iterate was called and ended in randint's error.
IterateRaised == mcpc = "raised" /\ hist # <<>>

\* C6: iterate(T) performs exactly T time steps and returns two traces of
\* length T, entry t of each being the follower / overall accuracy of the
\* state reached after exactly t steps.
C6_IterateRecordsBeforeEachStep ==
    /\ ~IterateRaised
    /\ mcpc = "returned" =>
         /\ t = T
         /\ Len(hist) = T + 1
         /\ DOMAIN q = 1..T /\ DOMAIN pi = 1..T
         /\ \A k \in 1..T : /\ q[k] = compute_q(hist[k])
                            /\ pi[k] = compute_pi(hist[k])

\* The part of C6 that the code keeps: what iterate returns when it returns.
IterateTracesWhenReturned ==
    mcpc = "returned" =>
         /\ t = T
         /\ Len(hist) = T + 1
         /\ DOMAIN q = 1..T /\ DOMAIN pi = 1..T
         /\ \A k \in 1..T : /\ q[k] = compute_q(hist[k])
                            /\ pi[k] = compute_pi(hist[k])

\* a value in [0, 1]
InUnit(x) == ~IsNaN(x) /\ x.den > 0 /\ 0 <= x.num /\ x.num <= x.den

\* C7: for every construction with N >= 1 and z in [0, 1] (N_f may be 0) and
\* after any number of steps, compute_q and compute_pi are each in [0, 1]
\* and are the fraction of follower entries, of all entries, that are +1.
C7_AccuraciesInUnitInterval ==
    /\ InUnit(compute_q(mcS))
    /\ InUnit(compute_pi(mcS))
    /\ compute_q(mcS).num = Cardinality({k \in N_i..(mcN - 1) : mcS[k] = 1})
    /\ compute_pi(mcS).num = Cardinality({k \in 0..(mcN - 1) : mcS[k] = 1})

\* C8: with N <= 1 the local field p(i) fails with an error, so no flip
\* that relies on it ever completes with a return value.
C8_LocalFieldFailsOnSingleAgent ==
    rfN <= 1 => lastFlip.i = -1

\* The field C9 states, times N - 1 (positive for N >= 2), of agent k when
\* the fields of the instance are B.
ClaimedField(B, k) ==
    (B.h[k] + B.F) * (rfN - 1) + B.J * (SumTo(B.S, rfN) - B.S[k])

\* C9: flip(i) negates S[i] and returns 1 exactly when S[i] * sign(p(i)) is
\* -1, p(i) leaving out agent i's own opinion; otherwise it returns 0 and
\* changes nothing.  No other entry, and none of h, F, J, changes; after a
\* flip(i) with p(i) # 0, S[i] agrees with sign(p(i)) and a second flip(i)
\* returns 0.
C9_FlipRule ==
    (lastFlip.i # -1 /\ rfN >= 2) =>
        LET k == lastFlip.i
            r == lastFlip.r
            field == ClaimedField(preFlip, k)
        IN  /\ r \in {0, 1}
            /\ r = 1 <=> preFlip.S[k] * Sgn(field) = -1
            /\ r = 1 => rfS = [preFlip.S EXCEPT ![k] = -preFlip.S[k]]
            /\ r = 0 => rfS = preFlip.S
            /\ h = preFlip.h /\ F = preFlip.F /\ J = preFlip.J
            /\ field # 0 =>
                 /\ rfS[k] = Sgn(field)
                 /\ ClaimedField(Fields, k) = field
                 /\ FlipRet(k) = 0

\* C9's case: with a coupling present, an agent did flip, and flip on the
\* same agent would now return 0.
C9_Witness ==
    /\ rfN >= 2 /\ J # 0
    /\ lastFlip.r = 1
    /\ FlipRet(lastFlip.i) = 0

\* The last time_step polled opinions that were all +1 or -1.
PolledSigns == chosen # -1 /\ poll.pos + poll.neg = mcM

\* C10: for every m >= 1, odd or even, the poll outcomes F_z counts (l
\* positive opinions among the m polled, l from ceil(m/2) to m) are exactly
\* those in which a majority of the polled opinions is positive, which are
\* exactly those in which time_step sets the chosen follower to +1.
C10_SolverCountsTheSimulatorsEvent ==
    PolledSigns =>
        /\ poll.pos \in F_z_terms(mcM) <=> poll.pos > poll.neg
        /\ poll.pos > poll.neg <=> mcS[chosen] = 1

\* The part of C10 that the code keeps: the two events agree for odd m.
SolverAgreesForOddPolls ==
    (PolledSigns /\ mcM % 2 = 1) =>
        /\ poll.pos \in F_z_terms(mcM) <=> poll.pos > poll.neg
        /\ poll.pos > poll.neg <=> mcS[chosen] = 1

==========================================================================
